---- MODULE Spec2Model ----
(***************************************************************************)
(* A model of the UIT NOC tools: the Duo/CAS login helper (uit_duo.py),    *)
(* the thread fan-out of the trunk-interface checker                      *)
(* (uit_key_interfaces.py) and of the banner fixer (uit_banner_fixer.py),  *)
(* and the uptime checker (uit_uptime.py).                                 *)
(*                                                                         *)
(* The scripts are independent programs, so each has its own              *)
(* specification over the variables it uses:                               *)
(*   SpecDuo     a client driving one Duo object and one Device            *)
(*   SpecFanout  main() of the two fan-out scripts, workers counted        *)
(*   SpecTrunk   main() of the trunk-interface checker with the code of    *)
(*               its workers, worker by worker                             *)
(*   SpecUptime  main3() of the uptime checker                             *)
(*   SpecExit    either checker under the handler at the bottom of its     *)
(*               file                                                      *)
(*   SpecBanner  main() of the banner fixer with change_maker, worker by   *)
(*               worker                                                    *)
(*   SpecConfigure  main() of the switch configurator                      *)
(*               (uit_switch_configure.py)                                 *)
(*   SpecIps     get_ip_addresses of the trunk-interface checker           *)
(*   SpecSearch  main_v2() of the device search (uit_device_search.py)     *)
(*   SpecDns     dns_change_allowed_checker of uit_name_updater.py         *)
(***************************************************************************)
EXTENDS Integers, Sequences, FiniteSets, TLC

VARIABLES
    \* ---- uit_duo.py ----
    d_pc,         \* position of the running Duo operation, "idle"/"done" between calls
    d_op,         \* the operation called last: login, handle_duo_auth, push, check_status
    d_result,     \* how the last operation ended: "none", "session", "None" or the exception
    d_raisedAt,   \* the statement that raised ("" when none did)
    d_steps,      \* the requests of the login sequence sent in this call, in order
    cookies,      \* Duo.session.cookies
    cookie_jar,   \* the file Duo.cookie_jar (~/.uit_duo_cookies)
    test_status,  \* HTTP status of the authentication test response (0 before it)
    dev_sid,      \* whether Device.sid has been set (by Device.push)
    cs_times,     \* check_status: the argument times
    cs_calls,     \* check_status: number of device.get_status calls made
    cs_polls,     \* check_status: the statuses get_status returned, in order
    \* ---- main() of uit_key_interfaces.py and uit_banner_fixer.py ----
    f_script,     \* which script runs: "key_interfaces" or "banner_fixer"
    f_n,          \* len(ip_addresses) / len(ARGS.switch_address)
    f_pc,         \* main's position
    f_i,          \* the chunk loop's i
    f_k,          \* addresses of the current chunk whose thread is started
    f_threads,    \* len(threads)
    f_j,          \* the join loop's position in threads
    f_alive,      \* worker threads started and not yet finished
    f_result,     \* "none", or the exception main raised
    \* ---- uit_key_interfaces.py, thread by thread ----
    t_yes,        \* ARGUMENTS.yes
    t_no,         \* ARGUMENTS.no
    t_n,          \* len(ip_addresses)
    t_pc,         \* main's position
    t_threads,    \* len(threads): threads 1 .. t_threads are started
    t_j,          \* threads 1 .. t_j are joined
    t_raised,     \* the exception that reached the top level ("" when none)
    t_exit,       \* the exit code, -1 while the script runs
    w_pc,         \* w_pc[i]: position of the worker of ip_addresses[i]
    w_left,       \* w_left[i]: trunk interfaces the worker's loop has yet to visit
    w_need_to_write,  \* w_need_to_write[i]: the worker's need_to_write
    w_expected,   \* w_expected[i]: the worker has printed a "should have description" line
    w_prompted,   \* w_prompted[i]: the worker has asked "Should the description be changed?"
    w_sent,       \* w_sent[i]: the worker has sent configuration commands
    w_saved,      \* w_saved[i]: the worker has called save_config()
    w_error,      \* w_error[i]: the worker has printed a "[!!!]" error line
    \* ---- uit_uptime.py ----
    u_n,          \* len(ARGS.switch)
    u_pc,         \* main3's position
    u_rows,       \* the rows of the table, each with the thread that made it
    u_inflight,   \* switches whose Switch(...) query is under way
    u_raised,     \* the exception that reached the top level ("" when none)
    u_exit,       \* the exit code, -1 while the script runs
    \* ---- uit_banner_fixer.py, thread by thread ----
    b_n,          \* len(ARGS.switch_address)
    b_pc,         \* main's position
    b_threads,    \* len(threads): threads 1 .. b_threads are started
    b_j,          \* threads 1 .. b_j are joined
    bw_pc,        \* bw_pc[i]: position of change_maker(ARGS.switch_address[i])
    bw_guesser,   \* bw_guesser[i]: the local name guesser is bound
    bw_logged,    \* bw_logged[i]: the log.error lines written, by the exception they report
    bw_reply,     \* bw_reply[i]: the parsed reply to "show version"
    bw_hostname,  \* bw_hostname[i]: the local hostname ("" before it is set)
    bw_sent,      \* bw_sent[i]: the command lines sent on the connection, in order
    bw_saved,     \* bw_saved[i]: save_config() was called
    bw_escaped,   \* bw_escaped[i]: the exception that left change_maker ("" when none)
    \* ---- uit_switch_configure.py ----
    c_dry_run,    \* args.dry_run
    c_access_vlan, \* args.access_vlan
    c_voice_vlan, \* args.voice_vlan ("None" when not given)
    c_description, \* args.description
    c_interfaces, \* args.interfaces
    c_pc,         \* main's position
    c_i,          \* interfaces the current loop has handled
    c_sent,       \* the command lines sent on the connection, in order
    c_saved,      \* save_config() was called
    c_exit,       \* the exit code, -1 while the script runs
    \* ---- get_ip_addresses of uit_key_interfaces.py ----
    g_args,       \* ARGUMENTS.ip
    g_pc,         \* the position in get_ip_addresses
    g_lines,      \* the lines typed at the prompt, in order
    g_printed,    \* times "Please enter at least one IP address." was printed
    g_list,       \* the local ip_addresses before the duplicates are removed
    g_result,     \* the list returned
    \* ---- uit_device_search.py ----
    s_max,        \* main_v2's max_retries
    s_item,       \* the search item, "" when none was given
    s_pc,         \* main_v2's position
    s_requests,   \* the requests made, in order
    s_times_searched, \* times_searched
    s_responses,  \* the status responses received, in order
    s_raised,     \* the exception that ended the run ("" when none)
    s_exit,       \* the exit code, -1 while the script runs
    \* ---- dns_change_allowed_checker of uit_name_updater.py ----
    n_results,    \* the argument results
    n_pc,         \* "call" before the call, "done" after it
    n_returned,   \* how the call ended: "name", "None", or the exception raised
    n_value       \* the string returned, <<>> when none was

duoVars == <<d_pc, d_op, d_result, d_raisedAt, d_steps, cookies, cookie_jar,
             test_status, dev_sid, cs_times, cs_calls, cs_polls>>

fanVars == <<f_script, f_n, f_pc, f_i, f_k, f_threads, f_j, f_alive, f_result>>

mainVars == <<t_yes, t_no, t_n, t_pc, t_threads, t_j, t_raised, t_exit>>

workerVars == <<w_pc, w_left, w_need_to_write, w_expected, w_prompted, w_sent,
                w_saved, w_error>>

trunkVars == <<mainVars, workerVars>>

upVars == <<u_n, u_pc, u_rows, u_inflight, u_raised, u_exit>>

bannerMainVars == <<b_n, b_pc, b_threads, b_j>>

bannerWorkerVars == <<bw_pc, bw_guesser, bw_logged, bw_reply, bw_hostname,
                      bw_sent, bw_saved, bw_escaped>>

bannerVars == <<bannerMainVars, bannerWorkerVars>>

confVars == <<c_dry_run, c_access_vlan, c_voice_vlan, c_description,
               c_interfaces, c_pc, c_i, c_sent, c_saved, c_exit>>

ipVars == <<g_args, g_pc, g_lines, g_printed, g_list, g_result>>

searchVars == <<s_max, s_item, s_pc, s_requests, s_times_searched,
                 s_responses, s_raised, s_exit>>

dnsVars == <<n_results, n_pc, n_returned, n_value>>

\* The programs added to the four above.
moreVars == <<bannerVars, confVars, ipVars, searchVars, dnsVars>>

vars == <<duoVars, fanVars, trunkVars, upVars, moreVars>>

\* What a step of one program leaves alone: the other programs' state.
DuoOnly == UNCHANGED <<fanVars, trunkVars, upVars, moreVars>>
FanoutOnly == UNCHANGED <<duoVars, trunkVars, upVars, moreVars>>
TrunkOnly == UNCHANGED <<duoVars, fanVars, upVars, moreVars>>
UptimeOnly == UNCHANGED <<duoVars, fanVars, trunkVars, moreVars>>
firstVars == <<duoVars, fanVars, trunkVars, upVars>>
BannerOnly == UNCHANGED <<firstVars, confVars, ipVars, searchVars, dnsVars>>   \* all but bannerVars
ConfigureOnly == UNCHANGED <<firstVars, bannerVars, ipVars, searchVars, dnsVars>>   \* all but confVars
IpsOnly == UNCHANGED <<firstVars, bannerVars, confVars, searchVars, dnsVars>>   \* all but ipVars
SearchOnly == UNCHANGED <<firstVars, bannerVars, confVars, ipVars, dnsVars>>   \* all but searchVars
DnsOnly == UNCHANGED <<firstVars, bannerVars, confVars, ipVars, searchVars>>   \* all but dnsVars

(***************************************************************************)
(* Bounds                                                                  *)
(***************************************************************************)
MaxTimes == 4      \* largest `times` given to check_status
MaxAddrs == 52     \* most addresses given to a fan-out script
MaxSwitches == 2   \* most switches of a run followed thread by thread
MaxIfaces == 2     \* most trunk interfaces a switch reports
MaxUptimeSwitches == 3   \* most switches given to the uptime checker
MaxDaysUp == 2     \* largest number of days a switch reports to be up

(***************************************************************************)
(* uit_duo.py: data                                                        *)
(***************************************************************************)
CookieNames == {"TGC", "JSESSIONID"}
Absent == "-"
CookieValues == {"v1", "v2"}

\* A RequestsCookieJar: each cookie name has a value or is absent.
Jars == [CookieNames -> CookieValues \cup {Absent}]
EmptyJar == [n \in CookieNames |-> Absent]

\* The states of the cookie file: no file, a file of length 0, a pickled
\* jar, or bytes pickle cannot load.
CookieFiles == {[kind |-> "missing", jar |-> EmptyJar],
                [kind |-> "empty", jar |-> EmptyJar],
                [kind |-> "corrupt", jar |-> EmptyJar]}
               \cup {[kind |-> "pickle", jar |-> j] : j \in Jars}

\* RequestsCookieJar.update(other): every cookie of other is set, replacing
\* a cookie of the same name; the others are kept.
update(jar, other) ==
    [n \in CookieNames |-> IF other[n] # Absent THEN other[n] ELSE jar[n]]

\* Response status codes; requests' Response.ok and raise_for_status() both
\* turn on status >= 400.
HttpStatuses == {200, 401, 500}
ok(status) == status < 400

\* The status codes Duo's /status endpoint is handled for, and one it is not.
PushStatuses == {"allow", "pushed", "deny", "timeout", "unknown"}

(***************************************************************************)
(* uit_duo.py: how an operation ends                                       *)
(***************************************************************************)
CanCall == d_pc \in {"idle", "done"}

Call(op, pc) ==
    /\ CanCall
    /\ d_op' = op
    /\ d_pc' = pc
    /\ d_result' = "none"
    /\ d_raisedAt' = ""
    /\ d_steps' = <<>>
    /\ test_status' = 0

Return(value) ==
    /\ d_pc' = "done"
    /\ d_result' = value
    /\ d_raisedAt' = ""

Raise(exception, at) ==
    /\ d_pc' = "done"
    /\ d_result' = exception
    /\ d_raisedAt' = at

Goto(pc) ==
    /\ d_pc' = pc
    /\ UNCHANGED <<d_result, d_raisedAt>>

csVars == <<cs_times, cs_calls, cs_polls>>

\* The locals of check_status do not outlive its call.
NoCheckStatus ==
    /\ cs_times' = 0
    /\ cs_calls' = 0
    /\ cs_polls' = <<>>

(***************************************************************************)
(* Duo._store_cookies and Duo._load_cookies                                *)
(***************************************************************************)
\* The file after pickle.dump(self.session.cookies, file).
store_cookies(jar) == [kind |-> "pickle", jar |-> jar]

\* pickle.load raises something other than FileNotFoundError and EOFError
\* (which _load_cookies catches) when the bytes are no pickle.
load_raises(file) == file.kind = "corrupt"

\* A mutant of load_cookies: the cookies already in the session win over
\* the stored ones.
load_cookies_keep_session(jar, file) ==
    IF file.kind = "pickle" THEN update(file.jar, jar) ELSE jar

\* The session's cookies after _load_cookies: a missing file
\* (FileNotFoundError) and an empty one (EOFError) change nothing.
load_cookies(jar, file) ==
    IF file.kind = "pickle" THEN update(jar, file.jar) ELSE jar

(***************************************************************************)
(* Duo.login                                                               *)
(***************************************************************************)
CallLogin ==
    /\ Call("login", "login_load")
    /\ NoCheckStatus
    /\ UNCHANGED <<cookies, cookie_jar, dev_sid>>
    /\ DuoOnly

\* login, "Load cookies from file if available": self._load_cookies()
LoginLoadCookies ==
    /\ d_pc = "login_load"
    /\ IF load_raises(cookie_jar)
       THEN /\ Raise("UnpicklingError", "_load_cookies")
            /\ UNCHANGED cookies
       ELSE /\ cookies' = load_cookies(cookies, cookie_jar)
            /\ Goto("login_test")
    /\ UNCHANGED <<d_op, d_steps, cookie_jar, test_status, dev_sid, csVars>>
    /\ DuoOnly

\* A mutant of LoginTestAuth: the early return stores the cookies first.
LoginTestAuthStoring ==
    /\ d_pc = "login_test"
    /\ \E status \in HttpStatuses, setc \in Jars :
          /\ cookies' = update(cookies, setc)
          /\ test_status' = status
          /\ IF ~ok(status)
             THEN Raise("HTTPError", "test") /\ UNCHANGED cookie_jar
             ELSE Return("session") /\ cookie_jar' = store_cookies(cookies')
    /\ UNCHANGED <<d_op, d_steps, dev_sid, csVars>>
    /\ DuoOnly

\* login, "Test authentication": the GET of the test URL (which may not be
\* answered at all), raise_for_status(), then the test of response.ok.
\* raise_for_status() has raised for every response that is not ok, so the
\* else branch ("Starting login process...") is never taken, and steps 1 to
\* 4 and the _store_cookies() call behind it never run.
LoginTestAuth ==
    /\ d_pc = "login_test"
    /\ \/ /\ Raise("ConnectionError", "test")
          /\ UNCHANGED <<cookies, test_status>>
       \/ \E status \in HttpStatuses, setc \in Jars :
             /\ cookies' = update(cookies, setc)
             /\ test_status' = status
             /\ IF ~ok(status)
                THEN Raise("HTTPError", "test")
                ELSE IF ok(status)
                     THEN Return("session")
                     ELSE Goto("login_execution")
    /\ UNCHANGED <<d_op, d_steps, cookie_jar, dev_sid, csVars>>
    /\ DuoOnly

(***************************************************************************)
(* Duo.handle_duo_auth                                                     *)
(***************************************************************************)
CallHandleDuoAuth ==
    /\ Call("handle_duo_auth", "hda_sid")
    /\ NoCheckStatus
    /\ UNCHANGED <<cookies, cookie_jar, dev_sid>>
    /\ DuoOnly

\* Step 5: sid = extract_query_parameter(auth_url, "sid"), a ValueError
\* when auth_url has no sid parameter.
HdaGetSid ==
    /\ d_pc = "hda_sid"
    /\ \E hasSid \in BOOLEAN :
          IF hasSid THEN Goto("hda_devices")
          ELSE Raise("ValueError", "extract_query_parameter")
    /\ UNCHANGED <<d_op, d_steps, cookies, cookie_jar, test_status, dev_sid, csVars>>
    /\ DuoOnly

\* Step 6: GET auth/prompt/data, then devices[0] of the reply's phones.
HdaGetDevices ==
    /\ d_pc = "hda_devices"
    /\ d_steps' = Append(d_steps, "devices")
    /\ \/ /\ Raise("ConnectionError", "devices")
          /\ UNCHANGED cookies
       \/ \E status \in HttpStatuses, setc \in Jars,
             body \in {"phones", "no_phones", "no_response"} :
             /\ cookies' = update(cookies, setc)
             /\ IF ~ok(status) THEN Raise("HTTPError", "devices")
                ELSE IF body = "no_response" THEN Raise("KeyError", "devices")
                ELSE IF body = "no_phones" THEN Raise("IndexError", "devices")
                ELSE Goto("hda_push")
    /\ UNCHANGED <<d_op, cookie_jar, test_status, dev_sid, csVars>>
    /\ DuoOnly

\* Step 7: POST prompt with factor "Duo Push".
HdaPush ==
    /\ d_pc = "hda_push"
    /\ d_steps' = Append(d_steps, "push")
    /\ \/ /\ Raise("ConnectionError", "push")
          /\ UNCHANGED cookies
       \/ \E status \in HttpStatuses, setc \in Jars :
             /\ cookies' = update(cookies, setc)
             /\ IF ~ok(status) THEN Raise("HTTPError", "push")
                ELSE Goto("hda_log_txid")
    /\ UNCHANGED <<d_op, cookie_jar, test_status, dev_sid, csVars>>
    /\ DuoOnly

\* log.debug(f"... transaction ID: {txid}") comes before txid is assigned:
\* txid is a local of handle_duo_auth, so evaluating the f-string raises
\* UnboundLocalError. The status loop and the oidc/exit request behind it
\* never run.
HdaLogTxid ==
    /\ d_pc = "hda_log_txid"
    /\ Raise("UnboundLocalError", "txid")
    /\ UNCHANGED <<d_op, d_steps, cookies, cookie_jar, test_status, dev_sid, csVars>>
    /\ DuoOnly

(***************************************************************************)
(* Device.push and check_status                                            *)
(***************************************************************************)
\* Device.push(sid): self.sid is set before the request is sent.
DevicePush ==
    /\ CanCall
    /\ d_op' = "push"
    /\ d_steps' = <<>>
    /\ test_status' = 0
    /\ dev_sid' = TRUE
    /\ \E outcome \in {"txid", "HTTPError", "ValueError"} :
          IF outcome = "txid" THEN Return(outcome) ELSE Raise(outcome, "push")
    /\ NoCheckStatus
    /\ UNCHANGED <<cookies, cookie_jar>>
    /\ DuoOnly

CallCheckStatus ==
    /\ Call("check_status", "cs_loop")
    /\ \E times \in 0 .. MaxTimes : cs_times' = times
    /\ cs_calls' = 0
    /\ cs_polls' = <<>>
    /\ UNCHANGED <<cookies, cookie_jar, dev_sid>>
    /\ DuoOnly

\* A mutant of StatusBranch: a denied push is polled again.
StatusBranchDenyContinues(status) ==
    IF status = "allow" THEN "break"
    ELSE IF status \in {"pushed", "deny"} THEN "continue"
    ELSE "raise"

\* The if/elif chain of check_status's loop body.
StatusBranch(status) ==
    IF status = "allow" THEN "break"
    ELSE IF status = "pushed" THEN "continue"
    ELSE IF status = "deny" THEN "raise"
    ELSE IF status = "timeout" THEN "raise"
    ELSE "raise"

\* One pass of `for _ in range(times)`: device.get_status(txid), which
\* reads self.sid (an AttributeError before any push) and may raise for
\* the response, then the if/elif chain.
CsPoll ==
    /\ d_pc = "cs_loop"
    /\ cs_calls < cs_times
    /\ cs_calls' = cs_calls + 1
    /\ IF ~dev_sid
       THEN /\ Raise("AttributeError", "get_status")
            /\ UNCHANGED cs_polls
       ELSE \/ /\ Raise("HTTPError", "get_status")
               /\ UNCHANGED cs_polls
            \/ \E status \in PushStatuses :
                  /\ cs_polls' = Append(cs_polls, status)
                  /\ CASE StatusBranch(status) = "break" -> Return("None")
                       [] StatusBranch(status) = "continue" -> Goto("cs_loop")
                       [] OTHER -> Raise("LoginError", status)
    /\ UNCHANGED <<d_op, d_steps, cookies, cookie_jar, test_status, dev_sid, cs_times>>
    /\ DuoOnly

\* The loop's else clause: range(times) is used up without a break.
CsExhausted ==
    /\ d_pc = "cs_loop"
    /\ ~(cs_calls < cs_times)
    /\ Raise("LoginError", "else")
    /\ UNCHANGED <<d_op, d_steps, cookies, cookie_jar, test_status, dev_sid, csVars>>
    /\ DuoOnly

(***************************************************************************)
(* SpecDuo                                                                 *)
(***************************************************************************)
InitDuoVars ==
    /\ d_pc = "idle"
    /\ d_op = "none"
    /\ d_result = "none"
    /\ d_raisedAt = ""
    /\ d_steps = <<>>
    /\ cookies = EmptyJar
    /\ test_status = 0
    /\ dev_sid = FALSE
    /\ cs_times = 0
    /\ cs_calls = 0
    /\ cs_polls = <<>>

\* No fan-out script runs.
NoFanout ==
    /\ f_script = "none"
    /\ f_n = 0
    /\ f_pc = "none"
    /\ f_i = 0
    /\ f_k = 0
    /\ f_threads = 0
    /\ f_j = 0
    /\ f_alive = 0
    /\ f_result = "none"

\* The trunk-interface checker is not followed thread by thread.
NoTrunk ==
    /\ t_yes = FALSE
    /\ t_no = FALSE
    /\ t_n = 0
    /\ t_pc = "none"
    /\ t_threads = 0
    /\ t_j = 0
    /\ t_raised = ""
    /\ t_exit = -1
    /\ w_pc = <<>>
    /\ w_left = <<>>
    /\ w_need_to_write = <<>>
    /\ w_expected = <<>>
    /\ w_prompted = <<>>
    /\ w_sent = <<>>
    /\ w_saved = <<>>
    /\ w_error = <<>>

\* The uptime checker does not run.
NoUptime ==
    /\ u_n = 0
    /\ u_pc = "none"
    /\ u_rows = <<>>
    /\ u_inflight = {}
    /\ u_raised = ""
    /\ u_exit = -1

\* The banner fixer is not followed thread by thread.
NoBanner ==
    /\ b_n = 0
    /\ b_pc = "none"
    /\ b_threads = 0
    /\ b_j = 0
    /\ bw_pc = <<>>
    /\ bw_guesser = <<>>
    /\ bw_logged = <<>>
    /\ bw_reply = <<>>
    /\ bw_hostname = <<>>
    /\ bw_sent = <<>>
    /\ bw_saved = <<>>
    /\ bw_escaped = <<>>

\* args.description when -d is not given (None).
NoDescription == [given |-> FALSE, words |-> <<>>]

\* The switch configurator does not run.
NoConfigure ==
    /\ c_dry_run = FALSE
    /\ c_access_vlan = "None"
    /\ c_voice_vlan = "None"
    /\ c_description = NoDescription
    /\ c_interfaces = <<>>
    /\ c_pc = "none"
    /\ c_i = 0
    /\ c_sent = <<>>
    /\ c_saved = FALSE
    /\ c_exit = -1

\* get_ip_addresses is not followed.
NoIps ==
    /\ g_args = <<>>
    /\ g_pc = "none"
    /\ g_lines = <<>>
    /\ g_printed = 0
    /\ g_list = <<>>
    /\ g_result = <<>>

\* The device search does not run.
NoSearch ==
    /\ s_max = 0
    /\ s_item = ""
    /\ s_pc = "none"
    /\ s_requests = <<>>
    /\ s_times_searched = 0
    /\ s_responses = <<>>
    /\ s_raised = ""
    /\ s_exit = -1

\* A results dictionary with neither "objects" nor "result".
NoResults ==
    [has_objects |-> FALSE, objects |-> <<>>, has_result |-> FALSE,
     result_objects |-> <<>>]

\* dns_change_allowed_checker is not called.
NoDns ==
    /\ n_results = NoResults
    /\ n_pc = "none"
    /\ n_returned = ""
    /\ n_value = <<>>

\* None of the programs added to the first four runs.
NoMore ==
    /\ NoBanner
    /\ NoConfigure
    /\ NoIps
    /\ NoSearch
    /\ NoDns

\* Only the Duo variables are in their initial state, no script runs.
NoScript ==
    /\ InitDuoVars
    /\ cookie_jar = [kind |-> "missing", jar |-> EmptyJar]
    /\ NoFanout
    /\ NoTrunk
    /\ NoUptime

\* Each added program run alone: every other program idles.
BannerAlone ==
    /\ NoScript
    /\ NoConfigure
    /\ NoIps
    /\ NoSearch
    /\ NoDns

ConfigureAlone ==
    /\ NoScript
    /\ NoBanner
    /\ NoIps
    /\ NoSearch
    /\ NoDns

IpsAlone ==
    /\ NoScript
    /\ NoBanner
    /\ NoConfigure
    /\ NoSearch
    /\ NoDns

SearchAlone ==
    /\ NoScript
    /\ NoBanner
    /\ NoConfigure
    /\ NoIps
    /\ NoDns

DnsAlone ==
    /\ NoScript
    /\ NoBanner
    /\ NoConfigure
    /\ NoIps
    /\ NoSearch

InitDuo ==
    /\ InitDuoVars
    /\ cookie_jar \in CookieFiles
    /\ NoFanout
    /\ NoTrunk
    /\ NoUptime
    /\ NoMore

NextDuo ==
    \/ CallLogin
    \/ LoginLoadCookies
    \/ LoginTestAuth
    \/ CallHandleDuoAuth
    \/ HdaGetSid
    \/ HdaGetDevices
    \/ HdaPush
    \/ HdaLogTxid
    \/ DevicePush
    \/ CallCheckStatus
    \/ CsPoll
    \/ CsExhausted

SpecDuo == InitDuo /\ [][NextDuo]_vars

(***************************************************************************)
(* Properties of uit_duo.py                                                *)
(***************************************************************************)
Range(seq) == {seq[i] : i \in DOMAIN seq}

\* The login sequence, in order; "status" is sent one to three times.
LoginSequence(polls) ==
    <<"cas_get", "cas_post", "auth_post", "devices", "push">>
    \o [i \in 1 .. polls |-> "status"]
    \o <<"oidc_exit", "store_cookies">>

IsPrefix(a, b) == Len(a) <= Len(b) /\ \A i \in DOMAIN a : a[i] = b[i]

LoginEnded == d_op = "login" /\ d_pc = "done"

\* login returned the session right after a successful authentication test.
EarlyReturn == LoginEnded /\ d_result = "session" /\ d_steps = <<>>

\* C1: every run of login that does not return early on valid stored
\* cookies goes through the login sequence in order (CAS login, the XSRF
\* post, device discovery, the push, the status polls, oidc/exit, cookie
\* persistence), each step after the one before it succeeded: the run ends
\* behind the whole sequence, or at the step that failed.  The code does
\* not: a run whose test response is answered and is not the early return
\* ends with no step of the sequence started.
C1_FullLoginInOrder ==
    (LoginEnded /\ test_status # 0 /\ ~EarlyReturn)
        => /\ d_steps # <<>>
           /\ \E polls \in 1 .. 3 : IsPrefix(d_steps, LoginSequence(polls))
           /\ d_result = "session"
                => \E polls \in 1 .. 3 : d_steps = LoginSequence(polls)

\* C2: when the authentication test request is not successful, login goes
\* on to step 1 of the login process instead of ending at the test.
C2_FailedTestStartsLogin ==
    (d_op = "login" /\ test_status # 0 /\ ~ok(test_status))
        => ~(d_pc = "done" /\ d_raisedAt = "test")

\* handle_duo_auth ended, and its push request was answered successfully.
PushInitiated ==
    /\ d_op = "handle_duo_auth"
    /\ d_pc = "done"
    /\ "push" \in Range(d_steps)
    /\ d_raisedAt # "push"

\* C3: after the push has been initiated, handle_duo_auth polls the status
\* one to three times, sends oidc/exit only behind a poll that said allow,
\* and raises LoginError, with no oidc/exit, after three polls without an
\* allow; it does not end in any other way than these or a failed request.
C3_PollsAfterPush ==
    PushInitiated
        => /\ \E polls \in 1 .. 3 :
                 \/ d_steps = <<"devices", "push">> \o [i \in 1 .. polls |-> "status"]
                 \/ d_steps = <<"devices", "push">> \o [i \in 1 .. polls |-> "status"]
                                 \o <<"oidc_exit">>
           /\ d_result \in {"None", "LoginError", "HTTPError", "ConnectionError"}
           /\ d_result = "LoginError" => "oidc_exit" \notin Range(d_steps)

\* Every poll but the last returned "pushed".
EarlierAllPushed ==
    \A i \in 1 .. Len(cs_polls) - 1 : cs_polls[i] = "pushed"

LastPoll == cs_polls[Len(cs_polls)]

\* C4: check_status calls get_status at most `times` times; it returns
\* normally exactly when a poll returned allow behind polls that all
\* returned pushed; a poll that returns deny, timeout or another status ends
\* it at once with LoginError; and it raises LoginError after `times` polls
\* that all returned pushed (with times = 0: after no poll).
C4_CheckStatus ==
    d_op = "check_status"
        => /\ cs_calls <= cs_times
           /\ Len(cs_polls) <= cs_calls
           /\ EarlierAllPushed
           /\ (cs_polls # <<>> /\ LastPoll # "pushed") => d_pc = "done"
           /\ d_pc = "done"
                => /\ d_result = "None"
                        <=> (cs_polls # <<>> /\ LastPoll = "allow")
                   /\ d_result = "LoginError"
                        <=> \/ cs_polls # <<>> /\ LastPoll \notin {"allow", "pushed"}
                            \/ /\ Len(cs_polls) = cs_times
                               /\ \A i \in DOMAIN cs_polls : cs_polls[i] = "pushed"

\* check_status returned behind two polls that said pushed and one that said allow.
C4_Witness ==
    /\ d_op = "check_status"
    /\ d_pc = "done"
    /\ d_result = "None"
    /\ cs_polls = <<"pushed", "pushed", "allow">>

\* C5: no step of a login run that raises, and no step of a run that
\* returns early on valid cookies, changes the cookie file; login writes it
\* only behind a handle_duo_auth that returned.
C5_LoginLeavesCookieFile ==
    [][(d_op' = "login" /\ "store_cookies" \notin Range(d_steps'))
          => cookie_jar' = cookie_jar]_vars

\* login returned early with session cookies that differ from the stored ones.
C5_Witness ==
    /\ EarlyReturn
    /\ cookie_jar.kind = "pickle"
    /\ cookie_jar.jar # cookies

\* C6: _load_cookies raises nothing and leaves the session's cookies as
\* they are when the cookie file is missing or empty; when the file holds
\* a stored jar, the session's cookies afterwards include every stored
\* cookie.
C6_LoadCookies ==
    [][(d_pc = "login_load" /\ d_pc' # "login_load")
          => /\ cookie_jar.kind \in {"missing", "empty"}
                  => cookies' = cookies /\ d_pc' = "login_test"
             /\ cookie_jar.kind = "pickle"
                  => /\ d_pc' = "login_test"
                     /\ \A n \in CookieNames :
                           cookie_jar.jar[n] # Absent
                               => cookies'[n] = cookie_jar.jar[n]]_vars

\* _load_cookies has put a stored cookie over the session's own, beside a
\* session cookie the file does not hold.
C6_Witness ==
    /\ d_op = "login"
    /\ d_pc = "login_test"
    /\ cookie_jar = [kind |-> "pickle", jar |-> [n \in CookieNames |->
                        IF n = "TGC" THEN "v2" ELSE Absent]]
    /\ cookies = [n \in CookieNames |-> IF n = "TGC" THEN "v2" ELSE "v1"]

(***************************************************************************)
(* The thread fan-out of uit_key_interfaces.py and uit_banner_fixer.py.    *)
(*                                                                         *)
(* The workers of one script all run the same function, and main only      *)
(* starts and joins them, so here they are counted: f_alive is the number  *)
(* of started workers that have not finished.  thread.join() on threads[j] *)
(* returns once that thread has finished.  The join loop has joined        *)
(* threads[0 .. j-1], so the workers still alive are among the             *)
(* f_threads - j threads from threads[j] on, and threads[j] can have       *)
(* finished exactly when the alive ones fit among the threads behind it.   *)
(***************************************************************************)
key_chunk_size == 50       \* uit_key_interfaces.py main: chunk_size = 50
banner_chunk_size == 40    \* uit_banner_fixer.py main: chunk_size = 40
banner_single_max == 45    \* uit_banner_fixer.py main: len(...) <= 45

Min(a, b) == IF a < b THEN a ELSE b

\* A mutant of chunk_len: the slice takes all the remaining addresses.
chunk_len_unbounded(i, n, chunk_size) == n - i

\* len(ip_addresses[i:i + chunk_size]) for a list of n addresses
chunk_len(i, n, chunk_size) == Min(chunk_size, n - i)

\* A mutant of join_end: the join loop leaves out the last thread.
join_end_skips_last(len) == len - 1

\* `for thread in threads` ends behind the last element of threads.
join_end(len) == len

\* thread.join() on threads[j] can return: see above.
has_finished(j) == f_alive < f_threads - j

\* Thread(target=..., args=...), threads.append(thread), thread.start()
StartThread ==
    /\ f_threads' = f_threads + 1
    /\ f_alive' = f_alive + 1
    /\ f_k' = f_k + 1

\* A worker's target function returns or raises: its thread ends.
WorkerFinish ==
    /\ f_alive > 0
    /\ f_alive' = f_alive - 1
    /\ UNCHANGED <<f_script, f_n, f_pc, f_i, f_k, f_threads, f_j, f_result>>
    /\ FanoutOnly

\* uit_key_interfaces.py main: one pass of `for ip_address in chunk`, or
\* the end of that loop and the start of `for thread in threads`.
KeyStartThread ==
    /\ f_script = "key_interfaces"
    /\ f_pc = "start"
    /\ IF f_k < chunk_len(f_i, f_n, key_chunk_size)
       THEN StartThread /\ UNCHANGED <<f_pc, f_j>>
       ELSE /\ f_pc' = "join"
            /\ f_j' = 0
            /\ UNCHANGED <<f_threads, f_alive, f_k>>
    /\ UNCHANGED <<f_script, f_n, f_i, f_result>>
    /\ FanoutOnly

\* uit_key_interfaces.py main: thread.join() returns for threads[f_j].
\* threads is never cleared, so the threads of earlier chunks are joined
\* again.
KeyJoinThread ==
    /\ f_script = "key_interfaces"
    /\ f_pc = "join"
    /\ f_j < join_end(f_threads)
    /\ has_finished(f_j)
    /\ f_j' = f_j + 1
    /\ UNCHANGED <<f_script, f_n, f_pc, f_i, f_k, f_threads, f_alive, f_result>>
    /\ FanoutOnly

\* uit_key_interfaces.py main: the join loop is over; the next i of
\* range(0, len(ip_addresses), chunk_size), or the "Finished checking trunk
\* interfaces" lines and the return.
KeyNextChunk ==
    /\ f_script = "key_interfaces"
    /\ f_pc = "join"
    /\ ~(f_j < join_end(f_threads))
    /\ IF f_i + key_chunk_size < f_n
       THEN /\ f_i' = f_i + key_chunk_size
            /\ f_k' = 0
            /\ f_pc' = "start"
       ELSE /\ f_pc' = "finished"
            /\ UNCHANGED <<f_i, f_k>>
    /\ UNCHANGED <<f_script, f_n, f_threads, f_j, f_alive, f_result>>
    /\ FanoutOnly

\* uit_banner_fixer.py main: `if len(ARGS.switch_address) <= 45`.  In the
\* else branch the first pass of the chunk loop reads ARGS.switch, which the
\* namespace does not have (the argument is switch_address): AttributeError,
\* before any thread is made.
BannerBranch ==
    /\ f_script = "banner_fixer"
    /\ f_pc = "begin"
    /\ IF f_n <= banner_single_max
       THEN f_pc' = "start" /\ UNCHANGED f_result
       ELSE f_pc' = "raised" /\ f_result' = "AttributeError"
    /\ UNCHANGED <<f_script, f_n, f_i, f_k, f_threads, f_j, f_alive>>
    /\ FanoutOnly

\* uit_banner_fixer.py main: one pass of `for switch in ARGS.switch_address`.
BannerStartThread ==
    /\ f_script = "banner_fixer"
    /\ f_pc = "start"
    /\ IF f_k < f_n
       THEN StartThread /\ UNCHANGED <<f_pc, f_j>>
       ELSE /\ f_pc' = "join"
            /\ f_j' = 0
            /\ UNCHANGED <<f_threads, f_alive, f_k>>
    /\ UNCHANGED <<f_script, f_n, f_i, f_result>>
    /\ FanoutOnly

\* uit_banner_fixer.py main: one pass of `for thread in threads`, or the
\* end of that loop and of main.
BannerJoinThread ==
    /\ f_script = "banner_fixer"
    /\ f_pc = "join"
    /\ IF f_j < join_end(f_threads)
       THEN /\ has_finished(f_j)
            /\ f_j' = f_j + 1
            /\ UNCHANGED f_pc
       ELSE /\ f_pc' = "finished"
            /\ UNCHANGED f_j
    /\ UNCHANGED <<f_script, f_n, f_i, f_k, f_threads, f_alive, f_result>>
    /\ FanoutOnly

InitFanout ==
    /\ InitDuoVars
    /\ cookie_jar = [kind |-> "missing", jar |-> EmptyJar]
    /\ f_script \in {"key_interfaces", "banner_fixer"}
    /\ f_n \in 1 .. MaxAddrs
    /\ f_pc = IF f_script = "key_interfaces" THEN "start" ELSE "begin"
    /\ f_i = 0
    /\ f_k = 0
    /\ f_threads = 0
    /\ f_j = 0
    /\ f_alive = 0
    /\ f_result = "none"
    /\ NoTrunk
    /\ NoUptime
    /\ NoMore

NextFanout ==
    \/ WorkerFinish
    \/ KeyStartThread
    \/ KeyJoinThread
    \/ KeyNextChunk
    \/ BannerBranch
    \/ BannerStartThread
    \/ BannerJoinThread

SpecFanout == InitFanout /\ [][NextFanout]_vars

(***************************************************************************)
(* Properties of the fan-out                                               *)
(***************************************************************************)
\* C7: main has joined every worker it started before it goes on behind
\* the fan-out: no worker is alive when main prints the "Finished checking
\* trunk interfaces" lines or when it ends.
C7_AllJoinedBeforeFinish ==
    f_pc \in {"finished", "raised"} => f_alive = 0

\* The trunk-interface checker has finished behind a second chunk.
C7_Witness ==
    /\ f_script = "key_interfaces"
    /\ f_pc = "finished"
    /\ f_threads > key_chunk_size

\* C9: never more than 50 workers of the trunk-interface checker are alive,
\* never more than 45 of the banner fixer (40 when more than 45 addresses
\* are given), and the first thread of a chunk is started only when no
\* worker of an earlier chunk is alive.
C9_BoundedFanout ==
    /\ [](f_script = "key_interfaces" => f_alive <= key_chunk_size)
    /\ [](f_script = "banner_fixer"
            => /\ f_alive <= banner_single_max
               /\ f_n > banner_single_max => f_alive <= banner_chunk_size)
    /\ [][(f_threads' > f_threads /\ f_k = 0) => f_alive = 0]_vars

\* Workers of the second chunk of the trunk-interface checker are alive.
C9_Witness ==
    /\ f_script = "key_interfaces"
    /\ f_i = key_chunk_size
    /\ f_alive >= 1

(***************************************************************************)
(* uit_key_interfaces.py thread by thread: main() for at most MaxSwitches  *)
(* addresses (one chunk) and check_trunk_interfaces in each thread.  A     *)
(* worker's step is one exchange with its switch or with the terminal.     *)
(***************************************************************************)
Workers == 1 .. t_n

\* The handler at the bottom of the file without its KeyboardInterrupt
\* clause.
top_level_exit_general(raised) ==
    IF raised = "" THEN 0 ELSE 1

\* The exit code of the `try: main(); exit(EXIT_SUCCESS)` block at the
\* bottom of uit_key_interfaces.py and of uit_uptime.py, by the exception
\* that reached it ("" when main returned).
top_level_exit(raised) ==
    IF raised = "" THEN 0
    ELSE IF raised = "KeyboardInterrupt" THEN 130
    ELSE 1

\* thread.start() for the next address of the chunk, or the end of the
\* start loop.
TrunkStartThread ==
    /\ t_pc = "start"
    /\ IF t_threads < chunk_len(0, t_n, key_chunk_size)
       THEN /\ t_threads' = t_threads + 1
            /\ w_pc' = [w_pc EXCEPT ![t_threads + 1] = "connect"]
            /\ UNCHANGED <<t_pc, t_j>>
       ELSE /\ t_pc' = "join"
            /\ t_j' = 0
            /\ UNCHANGED <<t_threads, w_pc>>
    /\ UNCHANGED <<t_yes, t_no, t_n, t_raised, t_exit, w_left, w_need_to_write,
                   w_expected, w_prompted, w_sent, w_saved, w_error>>
    /\ TrunkOnly

\* thread.join() returns for the next thread of threads, or the join loop
\* is over: the only chunk is done, main prints the "Finished" lines.
TrunkJoinThread ==
    /\ t_pc = "join"
    /\ IF t_j < join_end(t_threads)
       THEN /\ w_pc[t_j + 1] = "ended"
            /\ t_j' = t_j + 1
            /\ UNCHANGED t_pc
       ELSE /\ t_pc' = "finished"
            /\ UNCHANGED t_j
    /\ UNCHANGED <<t_yes, t_no, t_n, t_threads, t_raised, t_exit, workerVars>>
    /\ TrunkOnly

\* An exception inside the try block: one of the except clauses prints the
\* "[!!!]" line and check_trunk_interfaces returns.
WorkerFails(i) ==
    /\ w_pc' = [w_pc EXCEPT ![i] = "ended"]
    /\ w_error' = [w_error EXCEPT ![i] = TRUE]

\* ConnectHandler(**gen_connection_dictionary(...)): SSHDetect, then the
\* connection.
WorkerConnect(i) ==
    /\ w_pc[i] = "connect"
    /\ \/ WorkerFails(i)
       \/ /\ w_pc' = [w_pc EXCEPT ![i] = "show_trunk"]
          /\ UNCHANGED w_error
    /\ UNCHANGED <<mainVars, w_left, w_need_to_write, w_expected, w_prompted,
                   w_sent, w_saved>>
    /\ TrunkOnly

\* need_to_write = False, then "show interface trunk"
WorkerShowTrunk(i) ==
    /\ w_pc[i] = "show_trunk"
    /\ \/ WorkerFails(i) /\ UNCHANGED w_left
       \/ \E count \in 0 .. MaxIfaces :
             /\ w_left' = [w_left EXCEPT ![i] = count]
             /\ w_pc' = [w_pc EXCEPT ![i] = "interface"]
             /\ UNCHANGED w_error
    /\ w_need_to_write' = [w_need_to_write EXCEPT ![i] = FALSE]
    /\ UNCHANGED <<mainVars, w_expected, w_prompted, w_sent, w_saved>>
    /\ TrunkOnly

\* answer with -y taking precedence over -n.
answer_yes_first(no, yes) ==
    IF yes THEN "yes"
    ELSE IF no THEN "no"
    ELSE "ask"

\* The answer to "should the description of this interface be changed":
\* "no", "yes", or "ask" (the input() prompt).
answer(no, yes) ==
    IF no THEN "no"
    ELSE IF yes THEN "yes"
    ELSE "ask"

\* One pass of `for interface in output` up to the question: a
\* port-channel, an interface with no CDP neighbor and one whose neighbor
\* is no switch are skipped; for the others the expected description is
\* printed and the question is answered by the flags or put to the user.
\* Behind the last interface the loop ends.
WorkerInterface(i) ==
    /\ w_pc[i] = "interface"
    /\ IF w_left[i] = 0
       THEN /\ w_pc' = [w_pc EXCEPT ![i] = "save"]
            /\ UNCHANGED <<w_left, w_expected, w_prompted, w_error>>
       ELSE \E kind \in {"port_channel", "no_neighbor", "not_a_switch", "switch", "error"} :
             IF kind = "error"
             THEN WorkerFails(i) /\ UNCHANGED <<w_left, w_expected, w_prompted>>
             ELSE /\ w_left' = [w_left EXCEPT ![i] = @ - 1]
                  /\ w_expected' = [w_expected EXCEPT ![i] = @ \/ kind = "switch"]
                  /\ UNCHANGED w_error
                  /\ IF kind # "switch" \/ answer(t_no, t_yes) = "no"
                     THEN UNCHANGED <<w_pc, w_prompted>>
                     ELSE IF answer(t_no, t_yes) = "yes"
                     THEN /\ w_pc' = [w_pc EXCEPT ![i] = "config"]
                          /\ UNCHANGED w_prompted
                     ELSE /\ w_pc' = [w_pc EXCEPT ![i] = "input"]
                          /\ w_prompted' = [w_prompted EXCEPT ![i] = TRUE]
    /\ UNCHANGED <<mainVars, w_need_to_write, w_sent, w_saved>>
    /\ TrunkOnly

\* input("Should the description be changed? (y/n) ") returns the line
\* typed on the terminal.
WorkerInput(i) ==
    /\ w_pc[i] = "input"
    /\ \E line \in {"y", "n"} :
          w_pc' = [w_pc EXCEPT ![i] = IF line = "y" /\ ~t_no THEN "config"
                                      ELSE "interface"]
    /\ UNCHANGED <<mainVars, w_left, w_need_to_write, w_expected, w_prompted,
                   w_sent, w_saved, w_error>>
    /\ TrunkOnly

\* need_to_write = True and send_config_set(["interface ...",
\* "description ..."])
WorkerConfig(i) ==
    /\ w_pc[i] = "config"
    /\ w_need_to_write' = [w_need_to_write EXCEPT ![i] = TRUE]
    /\ \/ WorkerFails(i) /\ UNCHANGED w_sent
       \/ /\ w_sent' = [w_sent EXCEPT ![i] = TRUE]
          /\ w_pc' = [w_pc EXCEPT ![i] = "interface"]
          /\ UNCHANGED w_error
    /\ UNCHANGED <<mainVars, w_left, w_expected, w_prompted, w_saved>>
    /\ TrunkOnly

\* `if need_to_write: net_connect.save_config()`, the end of the with
\* block and of check_trunk_interfaces.
WorkerSave(i) ==
    /\ w_pc[i] = "save"
    /\ IF w_need_to_write[i]
       THEN \/ WorkerFails(i) /\ UNCHANGED <<w_saved, w_need_to_write>>
            \/ /\ w_saved' = [w_saved EXCEPT ![i] = TRUE]
               /\ w_need_to_write' = [w_need_to_write EXCEPT ![i] = FALSE]
               /\ w_pc' = [w_pc EXCEPT ![i] = "ended"]
               /\ UNCHANGED w_error
       ELSE /\ w_pc' = [w_pc EXCEPT ![i] = "ended"]
            /\ UNCHANGED <<w_saved, w_need_to_write, w_error>>
    /\ UNCHANGED <<mainVars, w_left, w_expected, w_prompted, w_sent>>
    /\ TrunkOnly

\* main has printed the "Finished" lines and returns; exit(EXIT_SUCCESS).
TrunkExit ==
    /\ t_pc = "finished"
    /\ t_pc' = "exited"
    /\ t_exit' = top_level_exit(t_raised)
    /\ UNCHANGED <<t_yes, t_no, t_n, t_threads, t_j, t_raised, workerVars>>
    /\ TrunkOnly

\* An exception in main reaches the handler at the bottom of the file:
\* Ctrl+C while main starts or joins threads, or RuntimeError from
\* thread.start().  The workers already started run on.
TrunkRaise ==
    /\ t_pc \in {"start", "join"}
    /\ \E raised \in {"KeyboardInterrupt", "RuntimeError"} :
          /\ raised = "RuntimeError" =>
                 t_pc = "start" /\ t_threads < chunk_len(0, t_n, key_chunk_size)
          /\ t_raised' = raised
          /\ t_exit' = top_level_exit(raised)
    /\ t_pc' = "exited"
    /\ UNCHANGED <<t_yes, t_no, t_n, t_threads, t_j, workerVars>>
    /\ TrunkOnly

InitTrunk ==
    /\ InitDuoVars
    /\ cookie_jar = [kind |-> "missing", jar |-> EmptyJar]
    /\ NoFanout
    /\ t_yes \in BOOLEAN
    /\ t_no \in BOOLEAN
    /\ t_n \in 1 .. MaxSwitches
    /\ t_pc = "start"
    /\ t_threads = 0
    /\ t_j = 0
    /\ t_raised = ""
    /\ t_exit = -1
    /\ w_pc = [i \in Workers |-> "unstarted"]
    /\ w_left = [i \in Workers |-> 0]
    /\ w_need_to_write = [i \in Workers |-> FALSE]
    /\ w_expected = [i \in Workers |-> FALSE]
    /\ w_prompted = [i \in Workers |-> FALSE]
    /\ w_sent = [i \in Workers |-> FALSE]
    /\ w_saved = [i \in Workers |-> FALSE]
    /\ w_error = [i \in Workers |-> FALSE]
    /\ NoUptime
    /\ NoMore

NextTrunk ==
    \/ TrunkStartThread
    \/ TrunkJoinThread
    \/ TrunkExit
    \/ TrunkRaise
    \/ \E i \in Workers : WorkerConnect(i)
    \/ \E i \in Workers : WorkerShowTrunk(i)
    \/ \E i \in Workers : WorkerInterface(i)
    \/ \E i \in Workers : WorkerInput(i)
    \/ \E i \in Workers : WorkerConfig(i)
    \/ \E i \in Workers : WorkerSave(i)

SpecTrunk == InitTrunk /\ [][NextTrunk]_vars

\* C10: the workers share no interactive stream: two workers are never at
\* the yes/no prompt of check_trunk_interfaces, reading the terminal, at the
\* same time.
C10_OneWorkerAtThePrompt ==
    Cardinality({i \in DOMAIN w_pc : w_pc[i] = "input"}) <= 1

\* C14: with -n (also together with -y) check_trunk_interfaces answers no to
\* every question: no worker prompts the user, sends an interface or
\* description command, or calls save_config, whatever the trunk
\* interfaces of its switch.
C14_NoAnswersEveryQuestion ==
    t_no =>
        \A i \in Workers :
            /\ w_pc[i] \notin {"input", "config"}
            /\ ~w_prompted[i]
            /\ ~w_sent[i]
            /\ ~w_need_to_write[i]
            /\ ~w_saved[i]

\* With -n and -y both workers have printed an expected description for a
\* trunk interface toward a switch and have ended, and main has finished.
C14_Witness ==
    /\ t_no
    /\ t_yes
    /\ t_n = 2
    /\ t_pc = "finished"
    /\ \A i \in Workers : w_pc[i] = "ended" /\ w_expected[i] /\ ~w_error[i]

(***************************************************************************)
(* uit_uptime.py: main3 and table_gen.  The file makes no thread: each     *)
(* Switch(switch) is built, and its uptime read, by the thread that runs   *)
(* table_gen.                                                              *)
(***************************************************************************)
\* A mutant of more_switches: the loop stops before the last switch.
more_switches_but_last(rows, n) == rows < n - 1

\* `for switch in switches` has another switch to visit
more_switches(rows, n) == rows < n

\* main3: get_args(), the debug flag, and the call of table_gen, which
\* makes the empty table.
UptimeGetArgs ==
    /\ u_pc = "main3"
    /\ u_pc' = "loop"
    /\ UNCHANGED <<u_n, u_rows, u_inflight, u_raised, u_exit>>
    /\ UptimeOnly

\* table_gen: the next pass of the loop begins: Switch(switch)
TableGenQuery ==
    /\ u_pc = "loop"
    /\ more_switches(Len(u_rows), u_n)
    /\ u_inflight' = u_inflight \cup {Len(u_rows) + 1}
    /\ u_pc' = "query"
    /\ UNCHANGED <<u_n, u_rows, u_raised, u_exit>>
    /\ UptimeOnly

\* table_gen: the uptime is read and table.add_row(...) called; or the
\* query raises, and the handler at the bottom of the file exits with 1
\* (130 for Ctrl+C).
TableGenRow ==
    /\ u_pc = "query"
    /\ u_inflight' = {}
    /\ \/ \E days \in 0 .. MaxDaysUp :
             /\ u_rows' = Append(u_rows, [switch |-> Len(u_rows) + 1,
                                          days |-> days,
                                          thread |-> "MainThread"])
             /\ u_pc' = "loop"
             /\ UNCHANGED <<u_raised, u_exit>>
       \/ \E raised \in {"KeyboardInterrupt", "Exception"} :
             /\ u_raised' = raised
             /\ u_exit' = top_level_exit(raised)
             /\ u_pc' = "exited"
             /\ UNCHANGED u_rows
    /\ UNCHANGED u_n
    /\ UptimeOnly

\* table_gen returns the table and main3 prints it: rprint(table)
UptimePrint ==
    /\ u_pc = "loop"
    /\ ~more_switches(Len(u_rows), u_n)
    /\ u_pc' = "printed"
    /\ UNCHANGED <<u_n, u_rows, u_inflight, u_raised, u_exit>>
    /\ UptimeOnly

\* exit(EXIT_SUCCESS)
UptimeExit ==
    /\ u_pc = "printed"
    /\ u_pc' = "exited"
    /\ u_exit' = top_level_exit(u_raised)
    /\ UNCHANGED <<u_n, u_rows, u_inflight, u_raised>>
    /\ UptimeOnly

InitUptime ==
    /\ InitDuoVars
    /\ cookie_jar = [kind |-> "missing", jar |-> EmptyJar]
    /\ NoFanout
    /\ NoTrunk
    /\ u_n \in 1 .. MaxUptimeSwitches
    /\ u_pc = "main3"
    /\ u_rows = <<>>
    /\ u_inflight = {}
    /\ u_raised = ""
    /\ u_exit = -1
    /\ NoMore

NextUptime ==
    \/ UptimeGetArgs
    \/ TableGenQuery
    \/ TableGenRow
    \/ UptimePrint
    \/ UptimeExit

SpecUptime == InitUptime /\ [][NextUptime]_vars

TablePrinted == u_pc = "printed" \/ (u_pc = "exited" /\ u_exit = 0)

\* C8 as stated: the uptime checker makes one worker thread per switch, so
\* that the switches are queried in parallel, and has joined them all when
\* it prints the table: every row comes from a thread other than main's.
C8_OneThreadPerSwitch ==
    TablePrinted => \A i \in DOMAIN u_rows : u_rows[i].thread # "MainThread"

\* C8 as amended: the uptime checker queries the switches one at a time,
\* in the order of the command line, in the main thread, and prints the
\* table only when every switch has been queried.
C8_OneSwitchAtATime ==
    /\ Cardinality(u_inflight) <= 1
    /\ \A i \in DOMAIN u_rows :
          u_rows[i].switch = i /\ u_rows[i].thread = "MainThread"
    /\ TablePrinted => Len(u_rows) = u_n /\ u_inflight = {}

\* The table of three switches has been printed.
C8_Witness ==
    /\ u_pc = "printed"
    /\ u_n = 3
    /\ Len(u_rows) = 3

\* The uptime checker or the trunk-interface checker, either run from its
\* start to its exit.
InitExit == InitUptime \/ InitTrunk

NextExit == NextUptime \/ NextTrunk

SpecExit == InitExit /\ [][NextExit]_vars

\* C18: the uptime checker and the trunk-interface checker exit with 0 when
\* main completes, with 130 when a KeyboardInterrupt reaches the top level
\* and with 1 when another exception does; the handler produces no other
\* exit code, and none before main has ended.
C18_ExitCodes ==
    /\ u_pc = "exited" =>
           /\ u_raised = "" => u_exit = 0 /\ Len(u_rows) = u_n
           /\ u_raised = "KeyboardInterrupt" => u_exit = 130
           /\ u_raised \notin {"", "KeyboardInterrupt"} => u_exit = 1
           /\ u_exit \in {0, 1, 130}
    /\ u_pc # "exited" => u_exit = -1
    /\ t_pc = "exited" =>
           /\ t_raised = "" => t_exit = 0 /\ t_j = t_n
           /\ t_raised = "KeyboardInterrupt" => t_exit = 130
           /\ t_raised \notin {"", "KeyboardInterrupt"} => t_exit = 1
           /\ t_exit \in {0, 1, 130}
    /\ t_pc # "exited" => t_exit = -1

\* The trunk-interface checker was interrupted with Ctrl+C while it waited
\* for its second worker and has exited.
C18_Witness ==
    /\ t_pc = "exited"
    /\ t_raised = "KeyboardInterrupt"
    /\ t_exit = 130
    /\ t_threads = 2
    /\ t_j = 1

(***************************************************************************)
(* uit_banner_fixer.py, thread by thread.  main() starts one               *)
(* change_maker thread per switch address and joins them; change_maker     *)
(* detects the device type, connects, reads the hostname and sends the     *)
(* banner commands made of it.                                             *)
(***************************************************************************)
MaxBannerSwitches == 2   \* most switches of a banner-fixer run followed thread by thread

BannerWorkers == 1 .. b_n

\* The hostnames a switch may report.
Hostnames == {"sx1-101-bldg", "sx2-202-bldg"}

\* The chassis a switch may report.
Chassis == {"C9300-48P"}

\* What send_command("show version", use_genie=True) may return: the parsed
\* reply, or (parsed = FALSE) the raw text when Genie could not parse it.
NoReply == [parsed |-> FALSE, version |-> [hostname |-> "", chassis |-> ""]]

Replies ==
    {[parsed |-> TRUE, version |-> [hostname |-> h, chassis |-> c]] :
        h \in Hostnames, c \in Chassis}
    \cup {NoReply}

\* switch_commands_generator with the switch name left out of the banner.
switch_commands_generator_nameless(switch_name) ==
    << "banner login ^",
       "\n",
       "\n",
       "University of Utah Network:  All use of this device must comply",
       "with the University of Utah policies and procedures.  Any use of",
       "this device, whether deliberate or not will be held legally",
       "responsible.  See University of Utah Information Security",
       "Policy (4-004) for details.",
       "\n",
       "Problems within the University of Utah's network should be reported",
       "by calling the Campus Helpdesk at 581-4000, or via e-mail at",
       "helpdesk@utah.edu",
       "\n",
       "DO NOT LOGIN",
       "if you are not authorized by NetCom at the University of Utah.",
       "\n\n",
       "^" >>

switch_commands_generator(switch_name) ==
    << "banner login ^",
       "\n",
       switch_name,
       "\n",
       "University of Utah Network:  All use of this device must comply",
       "with the University of Utah policies and procedures.  Any use of",
       "this device, whether deliberate or not will be held legally",
       "responsible.  See University of Utah Information Security",
       "Policy (4-004) for details.",
       "\n",
       "Problems within the University of Utah's network should be reported",
       "by calling the Campus Helpdesk at 581-4000, or via e-mail at",
       "helpdesk@utah.edu",
       "\n",
       "DO NOT LOGIN",
       "if you are not authorized by NetCom at the University of Utah.",
       "\n\n",
       "^" >>

\* get_switch_hostname reading the chassis field of the reply.
get_switch_hostname_chassis(reply) == reply.version.chassis

\* The value get_switch_hostname returns for a parsed reply.
get_switch_hostname(reply) == reply.version.hostname

\* The command get_switch_hostname sends.
show_version == "show version"

\* main, lines 187-191: the next thread is made, appended and started.
BannerWorkerStart ==
    /\ b_pc = "start"
    /\ b_threads < b_n
    /\ b_threads' = b_threads + 1
    /\ bw_pc' = [bw_pc EXCEPT ![b_threads + 1] = "detect"]
    /\ UNCHANGED <<b_n, b_pc, b_j>>
    /\ UNCHANGED <<bw_guesser, bw_logged, bw_reply, bw_hostname, bw_sent,
                   bw_saved, bw_escaped>>
    /\ BannerOnly

\* main, lines 193-194: join() of the next thread returns once it has ended;
\* after the last one main returns.
BannerWorkerJoin ==
    /\ \/ b_pc = "start" /\ b_threads = b_n
       \/ b_pc = "join"
    /\ IF b_j < b_threads
       THEN /\ bw_pc[b_j + 1] = "ended"
            /\ b_j' = b_j + 1
            /\ b_pc' = "join"
       ELSE /\ b_pc' = "returned"
            /\ UNCHANGED b_j
    /\ UNCHANGED <<b_n, b_threads, bannerWorkerVars>>
    /\ BannerOnly

\* change_maker, lines 131-143: SSHDetect(**device_dict) inside the try.
\* The two Netmiko exceptions are caught and logged; any other leaves
\* change_maker.
BwDetect(i) ==
    /\ bw_pc[i] = "detect"
    /\ \E outcome \in {"guesser", "NetmikoAuthenticationException",
                       "NetmikoTimeoutException", "SSHException"} :
         CASE outcome = "guesser" ->
                /\ bw_guesser' = [bw_guesser EXCEPT ![i] = TRUE]
                /\ bw_pc' = [bw_pc EXCEPT ![i] = "autodetect"]
                /\ UNCHANGED <<bw_logged, bw_escaped>>
           [] outcome \in {"NetmikoAuthenticationException",
                           "NetmikoTimeoutException"} ->
                /\ bw_logged' = [bw_logged EXCEPT ![i] = Append(@, outcome)]
                /\ bw_pc' = [bw_pc EXCEPT ![i] = "autodetect"]
                /\ UNCHANGED <<bw_guesser, bw_escaped>>
           [] OTHER ->
                /\ bw_escaped' = [bw_escaped EXCEPT ![i] = outcome]
                /\ bw_pc' = [bw_pc EXCEPT ![i] = "ended"]
                /\ UNCHANGED <<bw_guesser, bw_logged>>
    /\ UNCHANGED <<bannerMainVars, bw_reply, bw_hostname, bw_sent, bw_saved>>
    /\ BannerOnly

\* change_maker, lines 145-152: guesser.autodetect() and del guesser.  The
\* name guesser is unbound when SSHDetect raised, and reading it raises
\* UnboundLocalError.
BwAutodetect(i) ==
    /\ bw_pc[i] = "autodetect"
    /\ IF bw_guesser[i]
       THEN /\ bw_guesser' = [bw_guesser EXCEPT ![i] = FALSE]
            /\ bw_pc' = [bw_pc EXCEPT ![i] = "connect"]
            /\ UNCHANGED bw_escaped
       ELSE /\ bw_escaped' = [bw_escaped EXCEPT ![i] = "UnboundLocalError"]
            /\ bw_pc' = [bw_pc EXCEPT ![i] = "ended"]
            /\ UNCHANGED bw_guesser
    /\ UNCHANGED <<bannerMainVars, bw_logged, bw_reply, bw_hostname, bw_sent,
                   bw_saved>>
    /\ BannerOnly

\* change_maker, line 154: ConnectHandler(**device_dict) connects or raises.
BwConnect(i) ==
    /\ bw_pc[i] = "connect"
    /\ \E outcome \in {"conn", "NetmikoTimeoutException"} :
         IF outcome = "conn"
         THEN /\ bw_pc' = [bw_pc EXCEPT ![i] = "hostname"]
              /\ UNCHANGED bw_escaped
         ELSE /\ bw_escaped' = [bw_escaped EXCEPT ![i] = outcome]
              /\ bw_pc' = [bw_pc EXCEPT ![i] = "ended"]
    /\ UNCHANGED <<bannerMainVars, bw_guesser, bw_logged, bw_reply,
                   bw_hostname, bw_sent, bw_saved>>
    /\ BannerOnly

\* change_maker, lines 155-156, with get_switch_hostname (lines 107-114):
\* "show version" is sent and the reply indexed; indexing the raw text of an
\* unparsed reply raises TypeError.
BwHostname(i) ==
    /\ bw_pc[i] = "hostname"
    /\ \E reply \in Replies :
         /\ bw_sent' = [bw_sent EXCEPT ![i] = Append(@, show_version)]
         /\ bw_reply' = [bw_reply EXCEPT ![i] = reply]
         /\ IF reply.parsed
            THEN /\ bw_hostname' = [bw_hostname EXCEPT ![i] = get_switch_hostname(reply)]
                 /\ bw_pc' = [bw_pc EXCEPT ![i] = "config"]
                 /\ UNCHANGED bw_escaped
            ELSE /\ bw_escaped' = [bw_escaped EXCEPT ![i] = "TypeError"]
                 /\ bw_pc' = [bw_pc EXCEPT ![i] = "ended"]
                 /\ UNCHANGED bw_hostname
    /\ UNCHANGED <<bannerMainVars, bw_guesser, bw_logged, bw_saved>>
    /\ BannerOnly

\* change_maker, lines 158-161: the commands are generated from the hostname
\* and sent with send_config_set.
BwConfig(i) ==
    /\ bw_pc[i] = "config"
    /\ bw_sent' = [bw_sent EXCEPT ![i] = @ \o switch_commands_generator(bw_hostname[i])]
    /\ bw_pc' = [bw_pc EXCEPT ![i] = "save"]
    /\ UNCHANGED <<bannerMainVars, bw_guesser, bw_logged, bw_reply,
                   bw_hostname, bw_saved, bw_escaped>>
    /\ BannerOnly

\* change_maker, lines 162-169: save_config(), then the test of the global
\* CONSOLE, a name the module never binds: NameError.
BwSave(i) ==
    /\ bw_pc[i] = "save"
    /\ bw_saved' = [bw_saved EXCEPT ![i] = TRUE]
    /\ bw_escaped' = [bw_escaped EXCEPT ![i] = "NameError"]
    /\ bw_pc' = [bw_pc EXCEPT ![i] = "ended"]
    /\ UNCHANGED <<bannerMainVars, bw_guesser, bw_logged, bw_reply,
                   bw_hostname, bw_sent>>
    /\ BannerOnly

InitBanner ==
    /\ BannerAlone
    /\ b_n \in 1 .. MaxBannerSwitches
    /\ b_pc = "start"
    /\ b_threads = 0
    /\ b_j = 0
    /\ bw_pc = [i \in BannerWorkers |-> "unstarted"]
    /\ bw_guesser = [i \in BannerWorkers |-> FALSE]
    /\ bw_logged = [i \in BannerWorkers |-> <<>>]
    /\ bw_reply = [i \in BannerWorkers |-> NoReply]
    /\ bw_hostname = [i \in BannerWorkers |-> ""]
    /\ bw_sent = [i \in BannerWorkers |-> <<>>]
    /\ bw_saved = [i \in BannerWorkers |-> FALSE]
    /\ bw_escaped = [i \in BannerWorkers |-> ""]

NextBanner ==
    \/ BannerWorkerStart
    \/ BannerWorkerJoin
    \/ \E i \in BannerWorkers : BwDetect(i)
    \/ \E i \in BannerWorkers : BwAutodetect(i)
    \/ \E i \in BannerWorkers : BwConnect(i)
    \/ \E i \in BannerWorkers : BwHostname(i)
    \/ \E i \in BannerWorkers : BwConfig(i)
    \/ \E i \in BannerWorkers : BwSave(i)

SpecBanner == InitBanner /\ [][NextBanner]_vars

\* The configuration commands worker i has sent: what follows "show version".
BannerCommands(i) == SubSeq(bw_sent[i], 2, Len(bw_sent[i]))

\* Worker i has sent its banner commands.
BannerSent(i) == bw_pc[i] \in {"save", "ended"} /\ Len(bw_sent[i]) > 1

\* C11: whatever the switch name, switch_commands_generator returns a list
\* of 18 commands that starts with "banner login ^", ends with "^" and has
\* the name as its third element, and every element but the third is the
\* same for every name.
C11_BannerCommands ==
    \A i \in BannerWorkers :
        BannerSent(i) =>
            /\ Len(BannerCommands(i)) = 18
            /\ BannerCommands(i)[1] = "banner login ^"
            /\ BannerCommands(i)[18] = "^"
            /\ BannerCommands(i)[3] = bw_hostname[i]
            /\ \A h \in Hostnames : \A k \in (1 .. 18) \ {3} :
                   /\ Len(switch_commands_generator(h)) = 18
                   /\ BannerCommands(i)[k] = switch_commands_generator(h)[k]

\* Two switches with different names have both been sent their banner.
C11_Witness ==
    /\ b_n = 2
    /\ BannerSent(1)
    /\ BannerSent(2)
    /\ bw_hostname[1] # bw_hostname[2]

\* How many times command c occurs in the sequence sent.
Occurrences(sent, c) == Cardinality({k \in 1 .. Len(sent) : sent[k] = c})

\* Worker i has called get_switch_hostname.
HostnameAsked(i) == bw_pc[i] \in {"config", "save"} \/ bw_reply[i].parsed

\* C12: get_switch_hostname sends "show version" exactly once and, when the
\* parsed reply has ["version"]["hostname"], returns that value.
C12_SwitchHostname ==
    \A i \in BannerWorkers :
        /\ Occurrences(bw_sent[i], show_version) <= 1
        /\ HostnameAsked(i) =>
               /\ Occurrences(bw_sent[i], show_version) = 1
               /\ bw_sent[i][1] = show_version
               /\ bw_reply[i].parsed
               /\ bw_hostname[i] = bw_reply[i].version.hostname
               /\ bw_hostname[i] \in Hostnames

\* A worker holds the hostname read from a parsed reply.
C12_Witness ==
    \E i \in BannerWorkers :
        /\ bw_pc[i] = "config"
        /\ bw_reply[i].parsed
        /\ bw_hostname[i] = "sx2-202-bldg"
        /\ bw_sent[i] = <<show_version>>

\* The SSH detection of worker i failed with an authentication error or a
\* timeout: the two exceptions change_maker catches and logs.
DetectionFailed(i) == bw_logged[i] # <<>>

\* C20: when SSH detection fails with an authentication error or a timeout,
\* change_maker logs the error, sends no configuration command to the switch
\* and ends without an exception leaving it.
C20_DetectionErrorHandled ==
    \A i \in BannerWorkers :
        (DetectionFailed(i) /\ bw_pc[i] = "ended") =>
            /\ bw_sent[i] = <<>>
            /\ ~bw_saved[i]
            /\ bw_escaped[i] = ""

(***************************************************************************)
(* uit_switch_configure.py: main() validates the VLANs and interfaces,     *)
(* sends the pre-configuration commands and then one command set per       *)
(* interface, the dry-run set with --dry-run.  A command line is the       *)
(* sequence of its words; arguments are single lines.                      *)
(***************************************************************************)
MaxConfInterfaces == 2   \* most interfaces given to the switch configurator

InterfaceIds == {"Gi1/0/1", "Gi1/0/2"}

AccessVlans == {"10"}

\* args.voice_vlan: None, or the integer given with -vv.
VoiceVlans == {"None", "0", "20"}

\* args.description: None, or the text given with -d.
Descriptions ==
    {NoDescription} \cup
    {[given |-> TRUE, words |-> w] :
        w \in {<<>>, <<"printer">>, <<"uplink", "shutdown">>}}

\* The non-empty interface lists argparse accepts (nargs="+").
InterfaceLists ==
    UNION {[1 .. n -> InterfaceIds] : n \in 1 .. MaxConfInterfaces}

\* Python's truth value of args.voice_vlan and of args.description.
truthy_vlan(vlan) == vlan \notin {"None", "0"}

truthy_description(description) == description.given /\ description.words # <<>>

\* list.insert(index, x) for an index within the list.
insert(list, index, x) ==
    SubSeq(list, 1, index) \o <<x>> \o SubSeq(list, index + 1, Len(list))

\* The sixteen lines dry_run_cmds_gen starts from.
dry_run_cmds(interface_id, access_vlan) ==
    << <<"#", "DryRun", "Configuration", interface_id, "Start", "#">>,
       <<"do", "show", "interface", interface_id, "status">>,
       <<"do", "show", "mac", "address-table", "interface", interface_id>>,
       <<"do", "show", "running-config", "interface", interface_id>>,
       <<"#", "Would", "now", "run:", "default", "interface", interface_id>>,
       <<"#", "Would", "now", "run:", "interface", interface_id>>,
       <<"#", "Would", "now", "run:", "shutdown">>,
       <<"#", "Would", "now", "run:", "switchport", "mode", "access">>,
       <<"#", "Would", "now", "run:", "switchport", "access", "vlan", access_vlan>>,
       <<"#", "Would", "now", "run:", "spanning-tree", "portfast">>,
       <<"#", "Would", "now", "run:", "no", "shutdown">>,
       <<"#", "Would", "now", "run:", "exit">>,
       <<"do", "show", "running-config", "interface", interface_id>>,
       <<"do", "show", "interface", interface_id, "status">>,
       <<"do", "show", "mac", "address-table", "interface", interface_id>>,
       <<"#", "DryRun", "Configuration", interface_id, "End", "#">> >>

\* dry_run_cmds_gen with the description line of config_cmds_gen.
dry_run_cmds_gen_describing(interface_id, access_vlan, voice_vlan, description) ==
    LET cmds == dry_run_cmds(interface_id, access_vlan)
        voiced == IF truthy_vlan(voice_vlan)
                  THEN insert(cmds, 8, <<"#", "Would", "now", "run:",
                                         "switchport", "voice", "vlan", voice_vlan>>)
                  ELSE cmds
    IN  IF truthy_description(description)
        THEN insert(voiced, 7, <<"description">> \o description.words)
        ELSE voiced

dry_run_cmds_gen(interface_id, access_vlan, voice_vlan, description) ==
    LET cmds == dry_run_cmds(interface_id, access_vlan)
        voiced == IF truthy_vlan(voice_vlan)
                  THEN insert(cmds, 8, <<"#", "Would", "now", "run:",
                                         "switchport", "voice", "vlan", voice_vlan>>)
                  ELSE cmds
    IN  IF truthy_description(description)
        THEN insert(voiced, 7, <<"#", "Would", "now", "run:", "description">>
                                   \o description.words)
        ELSE voiced

config_cmds_gen(interface_id, access_vlan, voice_vlan, description) ==
    LET cmds ==
            << <<"#", "Configuration", interface_id, "Start", "#">>,
               <<"do", "show", "interface", interface_id, "status">>,
               <<"do", "show", "mac", "address-table", "interface", interface_id>>,
               <<"do", "show", "running-config", "interface", interface_id>>,
               <<"default", "interface", interface_id>>,
               <<"interface", interface_id>>,
               <<"shutdown">>,
               <<"switchport", "mode", "access">>,
               <<"switchport", "access", "vlan", access_vlan>>,
               <<"spanning-tree", "portfast">>,
               <<"no", "shutdown">>,
               <<"exit">>,
               <<"do", "show", "running-config", "interface", interface_id>>,
               <<"do", "show", "interface", interface_id, "status">>,
               <<"do", "show", "mac", "address-table", "interface", interface_id>>,
               <<"#", "Configuration", interface_id, "End", "#">> >>
        voiced == IF truthy_vlan(voice_vlan)
                  THEN insert(cmds, 8, <<"switchport", "voice", "vlan", voice_vlan>>)
                  ELSE cmds
    IN  IF truthy_description(description)
        THEN insert(voiced, 7, <<"description">> \o description.words)
        ELSE voiced

\* The "_" that ends the include pattern is a word of its own here.
pre_config_commands_gen(access_vlan, voice_vlan) ==
    << <<"show", "clock">>,
       <<"show", "users">>,
       IF truthy_vlan(voice_vlan)
       THEN <<"show", "vlan", "brief", "|", "include", "(", access_vlan, "|",
              voice_vlan, ")", "_">>
       ELSE <<"show", "vlan", "brief", "|", "include", access_vlan, "_">> >>

\* The command validate_vlans sends, and the one validate_interface sends.
show_vlan == <<"show", "vlan">>

show_interface_status(interface_id) == <<"show", "interface", interface_id, "status">>

confArgs == <<c_dry_run, c_access_vlan, c_voice_vlan, c_description, c_interfaces>>

\* exit(EXIT_INVALID_ARGUMENT) after a failed validation.
ConfExitInvalid ==
    /\ c_pc' = "exited"
    /\ c_exit' = 120

\* main, lines 346-362, under the top-level handler (lines 429-438):
\* Switch(args.switch) and ConnectHandler connect, or an exception reaches
\* the handler, which exits with EXIT_GENERAL_ERROR.
ConfConnect ==
    /\ c_pc = "main"
    /\ \E outcome \in {"connection", "Exception"} :
         IF outcome = "connection"
         THEN /\ c_pc' = "validate_access"
              /\ UNCHANGED c_exit
         ELSE /\ c_pc' = "exited"
              /\ c_exit' = 1
    /\ UNCHANGED <<confArgs, c_i, c_sent, c_saved>>
    /\ ConfigureOnly

\* main, lines 363-367: validate_vlans(connection, args.access_vlan).
ConfValidateAccess ==
    /\ c_pc = "validate_access"
    /\ c_sent' = Append(c_sent, show_vlan)
    /\ \E valid \in BOOLEAN :
         IF valid
         THEN /\ c_pc' = IF truthy_vlan(c_voice_vlan)
                         THEN "validate_voice"
                         ELSE "validate_interfaces"
              /\ UNCHANGED c_exit
         ELSE ConfExitInvalid
    /\ UNCHANGED <<confArgs, c_i, c_saved>>
    /\ ConfigureOnly

\* main, lines 368-373: validate_vlans(connection, args.voice_vlan).
ConfValidateVoice ==
    /\ c_pc = "validate_voice"
    /\ c_sent' = Append(c_sent, show_vlan)
    /\ \E valid \in BOOLEAN :
         IF valid
         THEN /\ c_pc' = "validate_interfaces"
              /\ UNCHANGED c_exit
         ELSE ConfExitInvalid
    /\ UNCHANGED <<confArgs, c_i, c_saved>>
    /\ ConfigureOnly

\* main, lines 374-379: validate_interface for the next interface.
ConfValidateInterface ==
    /\ c_pc = "validate_interfaces"
    /\ c_i < Len(c_interfaces)
    /\ c_sent' = Append(c_sent, show_interface_status(c_interfaces[c_i + 1]))
    /\ \E valid \in BOOLEAN :
         IF valid
         THEN /\ c_i' = c_i + 1
              /\ UNCHANGED <<c_pc, c_exit>>
         ELSE /\ ConfExitInvalid
              /\ UNCHANGED c_i
    /\ UNCHANGED <<confArgs, c_saved>>
    /\ ConfigureOnly

\* main, lines 380-385: the pre-configuration commands are sent.
ConfPreConfig ==
    /\ c_pc = "validate_interfaces"
    /\ c_i = Len(c_interfaces)
    /\ c_sent' = c_sent \o pre_config_commands_gen(c_access_vlan, c_voice_vlan)
    /\ c_pc' = "configure"
    /\ c_i' = 0
    /\ UNCHANGED <<confArgs, c_saved, c_exit>>
    /\ ConfigureOnly

\* main, lines 387-406: the command set of the next interface is generated,
\* replaced by the dry-run set with --dry-run, and sent.
ConfConfigure ==
    /\ c_pc = "configure"
    /\ c_i < Len(c_interfaces)
    /\ LET interface_id == c_interfaces[c_i + 1]
           config_commands ==
               IF c_dry_run
               THEN dry_run_cmds_gen(interface_id, c_access_vlan,
                                     c_voice_vlan, c_description)
               ELSE config_cmds_gen(interface_id, c_access_vlan,
                                    c_voice_vlan, c_description)
       IN  c_sent' = c_sent \o config_commands
    /\ c_i' = c_i + 1
    /\ UNCHANGED <<confArgs, c_pc, c_saved, c_exit>>
    /\ ConfigureOnly

\* main, lines 408-410: save_config() unless --dry-run.
ConfSave ==
    /\ c_pc = "configure"
    /\ c_i = Len(c_interfaces)
    /\ c_saved' = ~c_dry_run
    /\ c_pc' = "output"
    /\ UNCHANGED <<confArgs, c_i, c_sent, c_exit>>
    /\ ConfigureOnly

\* main, lines 411-426: the output is printed and copied, main returns and
\* the script ends with exit code 0.
ConfOutput ==
    /\ c_pc = "output"
    /\ c_pc' = "exited"
    /\ c_exit' = 0
    /\ UNCHANGED <<confArgs, c_i, c_sent, c_saved>>
    /\ ConfigureOnly

InitConfigure ==
    /\ ConfigureAlone
    /\ c_dry_run \in BOOLEAN
    /\ c_access_vlan \in AccessVlans
    /\ c_voice_vlan \in VoiceVlans
    /\ c_description \in Descriptions
    /\ c_interfaces \in InterfaceLists
    /\ c_pc = "main"
    /\ c_i = 0
    /\ c_sent = <<>>
    /\ c_saved = FALSE
    /\ c_exit = -1

NextConfigure ==
    \/ ConfConnect
    \/ ConfValidateAccess
    \/ ConfValidateVoice
    \/ ConfValidateInterface
    \/ ConfPreConfig
    \/ ConfConfigure
    \/ ConfSave
    \/ ConfOutput

SpecConfigure == InitConfigure /\ [][NextConfigure]_vars

\* What kind of line a command line is, by its first words.
IsComment(line) == line[1] = "#"

IsShow(line) ==
    \/ line[1] = "show"
    \/ Len(line) > 1 /\ line[1] = "do" /\ line[2] = "show"

IsChange(line) ==
    line[1] \in {"default", "interface", "shutdown", "switchport", "description",
                 "spanning-tree", "no", "exit"}

\* C13: with --dry-run every line sent is a show command or a "#" comment
\* line, no default interface, shutdown, switchport, description or
\* spanning-tree command is sent, and save_config is never called.
C13_DryRunChangesNothing ==
    c_dry_run =>
        /\ \A k \in 1 .. Len(c_sent) :
               /\ IsShow(c_sent[k]) \/ IsComment(c_sent[k])
               /\ ~IsChange(c_sent[k])
        /\ ~c_saved

\* A dry run with a voice VLAN and a description has handled its two
\* interfaces and ended.
C13_Witness ==
    /\ c_dry_run
    /\ truthy_vlan(c_voice_vlan)
    /\ truthy_description(c_description)
    /\ Len(c_interfaces) = 2
    /\ c_exit = 0
    /\ Len(c_sent) = 2 + 2 + 3 + 2 * 18

(***************************************************************************)
(* get_ip_addresses of uit_key_interfaces.py.  A string is the sequence    *)
(* of its characters; an address is a non-empty string without a space.    *)
(***************************************************************************)
MaxLine == 4   \* most characters of a line typed at the prompt
MaxArgs == 2   \* most addresses given on the command line

Chars == {" ", "1", "2"}

\* The lines the user may type, the empty line among them.
Lines == UNION {[1 .. n -> Chars] : n \in 0 .. MaxLine}

\* The addresses of a command line: one-character strings here.
ArgAddresses == {<<"1">>, <<"2">>}

\* What argparse may leave in ARGUMENTS.ip (nargs='*').
ArgLists == UNION {[1 .. n -> ArgAddresses] : n \in 0 .. MaxArgs}

\* The positions of the spaces of a line.
Spaces(line) == {k \in 1 .. Len(line) : line[k] = " "}

\* str.split(" "): the pieces between the spaces of the line, the empty
\* pieces included; a line without a space is its own only piece.
RECURSIVE split(_)
split(line) ==
    IF Spaces(line) = {}
    THEN <<line>>
    ELSE LET k == CHOOSE x \in Spaces(line) : \A y \in Spaces(line) : x <= y
         IN  <<SubSeq(line, 1, k - 1)>> \o split(SubSeq(line, k + 1, Len(line)))

\* list(set(ip_addresses)): the lists that hold each element once, in any
\* order.
list_of_set(list) ==
    LET elements == {list[k] : k \in 1 .. Len(list)}
    IN  {order \in [1 .. Cardinality(elements) -> elements] :
            \A a, b \in 1 .. Cardinality(elements) : order[a] = order[b] => a = b}

\* Lines 128-130: the addresses of the command line are taken when there
\* are any; if not, the prompt loop is entered.
GetIpArgs ==
    /\ g_pc = "get"
    /\ IF g_args # <<>>
       THEN /\ g_list' = g_args
            /\ g_pc' = "dedupe"
       ELSE /\ g_pc' = "prompt"
            /\ UNCHANGED g_list
    /\ UNCHANGED <<g_args, g_lines, g_printed, g_result>>
    /\ IpsOnly

\* Lines 131-136, one pass of `while True`: the line typed is split at its
\* spaces; a non-empty list ends the loop, an empty one prints the message.
GetIpPrompt ==
    /\ g_pc = "prompt"
    /\ \E line \in Lines :
         /\ g_lines' = Append(g_lines, line)
         /\ g_list' = split(line)
         /\ IF split(line) # <<>>
            THEN /\ g_pc' = "dedupe"
                 /\ UNCHANGED g_printed
            ELSE /\ g_printed' = g_printed + 1
                 /\ UNCHANGED g_pc
    /\ UNCHANGED <<g_args, g_result>>
    /\ IpsOnly

\* Lines 138-140: the duplicates are removed and the list is returned.
GetIpDedupe ==
    /\ g_pc = "dedupe"
    /\ g_result' \in list_of_set(g_list)
    /\ g_pc' = "returned"
    /\ UNCHANGED <<g_args, g_lines, g_printed, g_list>>
    /\ IpsOnly

InitIps ==
    /\ IpsAlone
    /\ g_args \in ArgLists
    /\ g_pc = "get"
    /\ g_lines = <<>>
    /\ g_printed = 0
    /\ g_list = <<>>
    /\ g_result = <<>>

NextIps ==
    \/ GetIpArgs
    \/ GetIpPrompt
    \/ GetIpDedupe

SpecIps == InitIps /\ [][NextIps]_vars

\* The addresses a line holds: its non-empty pieces.
AddressesOf(line) == {piece \in Range(split(line)) : piece # <<>>}

\* The addresses supplied: those of the command line, or those of the last
\* line typed when the command line had none.
Supplied ==
    IF g_args # <<>> THEN Range(g_args)
    ELSE IF g_lines # <<>> THEN AddressesOf(g_lines[Len(g_lines)])
    ELSE {}

\* C15: get_ip_addresses returns a list without duplicates whose elements
\* are exactly the addresses given on the command line, or typed at the
\* prompt when the command line had none.
C15_AddressesReturned ==
    g_pc = "returned" =>
        /\ \A a, b \in 1 .. Len(g_result) : g_result[a] = g_result[b] => a = b
        /\ Range(g_result) = Supplied

\* C16: with no address on the command line, a line without an address
\* makes get_ip_addresses print "Please enter at least one IP address." and
\* prompt again: the message was printed once for each such line, and the
\* prompt loop is left only after a line that holds an address.
C16_PromptsUntilAnAddress ==
    /\ g_printed = Cardinality({k \in 1 .. Len(g_lines) : AddressesOf(g_lines[k]) = {}})
    /\ (g_args = <<>> /\ g_pc \in {"dedupe", "returned"}) =>
           AddressesOf(g_lines[Len(g_lines)]) # {}

(***************************************************************************)
(* uit_device_search.py: main_v2 under the handler at the bottom of the    *)
(* file.  login and rich_get_next_arg are imported from outside; they are  *)
(* calls that return a value or raise.                                     *)
(***************************************************************************)
MaxRetries == 3   \* largest max_retries tried besides the default

default_max_retries == 25

EXIT_SUCCESS == 0
EXIT_GENERAL_ERROR == 1
EXIT_MISSING_ITEM == 2
EXIT_WARNING == 3
EXIT_MAX_RETRIES == 4

\* What rich_get_next_arg may return: nothing, or an item.
SearchItems == {"", "00:11:22:33:44:55"}

\* A status response by what main_v2 reads of it: whether
\* ["result"]["data"] and ["result"]["warning"] are truthy.
StatusResponses == [data : BOOLEAN, warning : BOOLEAN]

\* The branch of main_v2 with the warning tested before the data.
status_exit_warning_first(response) ==
    IF response.warning THEN EXIT_WARNING
    ELSE IF response.data THEN EXIT_SUCCESS
    ELSE -1

\* Lines 485-496: the exit code a status response leads to, -1 when the
\* loop goes on.
status_exit(response) ==
    IF response.data THEN EXIT_SUCCESS
    ELSE IF response.warning THEN EXIT_WARNING
    ELSE -1

searchArgs == <<s_max, s_item>>

\* exit(code), or an exception on its way to the handler.
SearchExit(code, raised) ==
    /\ s_pc' = "exited"
    /\ s_exit' = code
    /\ s_raised' = raised

\* Lines 448-454: the item is asked for; without one main_v2 exits.
SearchGetItem ==
    /\ s_pc = "main_v2"
    /\ IF s_item = ""
       THEN SearchExit(EXIT_MISSING_ITEM, "")
       ELSE /\ s_pc' = "login"
            /\ UNCHANGED <<s_exit, s_raised>>
    /\ UNCHANGED <<searchArgs, s_requests, s_times_searched, s_responses>>
    /\ SearchOnly

\* Line 457: login() returns the session, or raises and the handler of
\* lines 503-511 exits with EXIT_GENERAL_ERROR.
SearchLogin ==
    /\ s_pc = "login"
    /\ s_requests' = Append(s_requests, "login")
    /\ \E outcome \in {"session", "Exception"} :
         IF outcome = "session"
         THEN /\ s_pc' = "start_search"
              /\ UNCHANGED <<s_exit, s_raised>>
         ELSE SearchExit(EXIT_GENERAL_ERROR, outcome)
    /\ UNCHANGED <<searchArgs, s_times_searched, s_responses>>
    /\ SearchOnly

\* Lines 464-473 with start_search (lines 250-263): the search request
\* returns the thread id, or raises and main_v2 exits.
SearchStart ==
    /\ s_pc = "start_search"
    /\ s_requests' = Append(s_requests, "search")
    /\ \E outcome \in {"thread_id", "HTTPError", "Exception"} :
         IF outcome = "thread_id"
         THEN /\ s_pc' = "check_status"
              /\ UNCHANGED <<s_exit, s_raised>>
         ELSE SearchExit(EXIT_GENERAL_ERROR, outcome)
    /\ UNCHANGED <<searchArgs, s_times_searched, s_responses>>
    /\ SearchOnly

\* Lines 480-496 with check_status (lines 266-279): one pass of the while
\* loop.  raise_for_status() raises HTTPError, which reaches the handler.
SearchPoll ==
    /\ s_pc = "check_status"
    /\ s_times_searched < s_max
    /\ s_requests' = Append(s_requests, "status")
    /\ \/ /\ SearchExit(EXIT_GENERAL_ERROR, "HTTPError")
          /\ UNCHANGED <<s_times_searched, s_responses>>
       \/ \E response \in StatusResponses :
            /\ s_responses' = Append(s_responses, response)
            /\ IF status_exit(response) # -1
               THEN /\ SearchExit(status_exit(response), "")
                    /\ UNCHANGED s_times_searched
               ELSE /\ s_times_searched' = s_times_searched + 1
                    /\ UNCHANGED <<s_pc, s_exit, s_raised>>
    /\ UNCHANGED searchArgs
    /\ SearchOnly

\* Lines 498-500: the else clause of the while loop.
SearchGiveUp ==
    /\ s_pc = "check_status"
    /\ ~(s_times_searched < s_max)
    /\ SearchExit(EXIT_MAX_RETRIES, "")
    /\ UNCHANGED <<searchArgs, s_requests, s_times_searched, s_responses>>
    /\ SearchOnly

InitSearch ==
    /\ SearchAlone
    /\ s_max \in (0 .. MaxRetries) \cup {default_max_retries}
    /\ s_item \in SearchItems
    /\ s_pc = "main_v2"
    /\ s_requests = <<>>
    /\ s_times_searched = 0
    /\ s_responses = <<>>
    /\ s_raised = ""
    /\ s_exit = -1

NextSearch ==
    \/ SearchGetItem
    \/ SearchLogin
    \/ SearchStart
    \/ SearchPoll
    \/ SearchGiveUp

SpecSearch == InitSearch /\ [][NextSearch]_vars

\* A response with neither data nor warning.
Neither(response) == ~response.data /\ ~response.warning

\* The status requests made so far.
StatusRequests == Occurrences(s_requests, "status")

\* C17: without a search item main_v2 exits with 2 before any request.
\* With one, it asks for the status at most max_retries times; every
\* response before the last had neither data nor warning; it has exited
\* with 0 exactly when the last response holds data, with 3 exactly when
\* the last response holds a warning and no data, and with 4 exactly when
\* max_retries responses held neither and no request failed.
C17_SearchExitCodes ==
    /\ s_item = "" => s_requests = <<>> /\ s_exit \in {-1, EXIT_MISSING_ITEM}
    /\ (s_item = "" /\ s_pc = "exited") => s_exit = EXIT_MISSING_ITEM
    /\ s_exit = EXIT_MISSING_ITEM => s_item = ""
    /\ StatusRequests <= s_max
    /\ Len(s_responses) <= StatusRequests
    /\ \A k \in 1 .. Len(s_responses) - 1 : Neither(s_responses[k])
    /\ LET n == Len(s_responses)
           last == s_responses[n]
       IN  /\ (n > 0 /\ last.data) <=> s_exit = EXIT_SUCCESS
           /\ (n > 0 /\ last.warning /\ ~last.data) <=> s_exit = EXIT_WARNING
           /\ s_exit = EXIT_MAX_RETRIES =>
                  /\ n = s_max
                  /\ \A k \in 1 .. n : Neither(s_responses[k])
           /\ (s_pc = "exited" /\ s_item # "" /\ s_raised = "" /\ n = s_max
                 /\ \A k \in 1 .. n : Neither(s_responses[k])) =>
                  s_exit = EXIT_MAX_RETRIES

\* With the default max_retries the search gave up after 25 responses.
C17_Witness ==
    /\ s_max = default_max_retries
    /\ Len(s_responses) = 25
    /\ s_exit = EXIT_MAX_RETRIES

(***************************************************************************)
(* dns_change_allowed_checker of uit_name_updater.py.  A string is the     *)
(* sequence of its parts: "record", ":", the record type, "/", the         *)
(* reference, ":", the name, "/", the view.                                *)
(***************************************************************************)
MaxObjects == 3   \* most entries of an objects list

DnsNames == {"sx1-101-bldg.net.utah.edu", "sx2-202-bldg.net.utah.edu"}

Views == {"Internal", "External"}

RecordTypes == {"host", "host_ipv4addr", "a"}

\* The object references of a search result.
ObjectRefs ==
    {<<"record", ":", type, "/", "ZG5zLmhvc3Q", ":", name, "/", view>> :
        type \in RecordTypes, name \in DnsNames, view \in Views}

ObjectLists == UNION {[1 .. n -> ObjectRefs] : n \in 0 .. MaxObjects}

\* The dictionaries the checker is given: the search result itself, with
\* its "objects", or a response that holds the result under "result".
ResultDicts ==
    {[has_objects |-> TRUE, objects |-> objects, has_result |-> FALSE,
      result_objects |-> <<>>] : objects \in ObjectLists}
    \cup
    {[has_objects |-> FALSE, objects |-> <<>>, has_result |-> TRUE,
      result_objects |-> objects] : objects \in ObjectLists}

\* "".join(objects)
RECURSIVE join(_)
join(objects) ==
    IF objects = <<>> THEN <<>> ELSE Head(objects) \o join(Tail(objects))

\* The parts that begin with "host".
BeginsWithHost(part) == part \in {"host", "host_ipv4addr"}

\* text.count("record:host")
count_record_host(text) ==
    Cardinality({k \in 1 .. Len(text) - 2 :
        text[k] = "record" /\ text[k + 1] = ":" /\ BeginsWithHost(text[k + 2])})

\* "External" in text
contains_external(text) == \E k \in 1 .. Len(text) : text[k] = "External"

\* obj.startswith("record:host")
startswith_record_host(obj) ==
    Len(obj) >= 3 /\ obj[1] = "record" /\ obj[2] = ":" /\ BeginsWithHost(obj[3])

\* text.split(separator)
RECURSIVE split_at(_, _)
split_at(text, separator) ==
    LET at == {k \in 1 .. Len(text) : text[k] = separator}
    IN  IF at = {}
        THEN <<text>>
        ELSE LET k == CHOOSE x \in at : \A y \in at : x <= y
             IN  <<SubSeq(text, 1, k - 1)>>
                     \o split_at(SubSeq(text, k + 1, Len(text)), separator)

\* obj.split(":")[2].split("/")[0]
host_name(obj) == split_at(split_at(obj, ":")[3], "/")[1]

\* Lines 294-311, the whole call.  `results.get("objects") or
\* results["result"]["objects"]` reads results["result"] when "objects" is
\* missing or empty, and that raises KeyError when there is no "result".
DnsChangeAllowedChecker ==
    /\ n_pc = "call"
    /\ n_pc' = "done"
    /\ IF ~(n_results.has_objects /\ n_results.objects # <<>>) /\ ~n_results.has_result
       THEN /\ n_returned' = "KeyError"
            /\ n_value' = <<>>
       ELSE LET objects == IF n_results.has_objects /\ n_results.objects # <<>>
                           THEN n_results.objects
                           ELSE n_results.result_objects
                joined_objects == join(objects)
                host_record_count == count_record_host(joined_objects)
                hosts == {k \in 1 .. Len(objects) : startswith_record_host(objects[k])}
            IN  IF host_record_count < 1 \/ host_record_count > 1
                   \/ contains_external(joined_objects) \/ hosts = {}
                THEN /\ n_returned' = "None"
                     /\ n_value' = <<>>
                ELSE LET first == CHOOSE k \in hosts : \A j \in hosts : k <= j
                     IN  /\ n_returned' = "name"
                         /\ n_value' = host_name(objects[first])
    /\ UNCHANGED n_results
    /\ DnsOnly

InitDns ==
    /\ DnsAlone
    /\ n_results \in ResultDicts
    /\ n_pc = "call"
    /\ n_returned = ""
    /\ n_value = <<>>

NextDns ==
    \/ DnsChangeAllowedChecker

SpecDns == InitDns /\ [][NextDns]_vars

\* The objects the results hold.
ResultObjects ==
    IF n_results.has_objects THEN n_results.objects ELSE n_results.result_objects

\* The entries that are host records, and those that are External.
HostEntries == {k \in 1 .. Len(ResultObjects) : startswith_record_host(ResultObjects[k])}

ExternalEntries == {k \in 1 .. Len(ResultObjects) : contains_external(ResultObjects[k])}

\* C19: dns_change_allowed_checker returns a host record name if and only
\* if the result objects hold exactly one record:host entry and no External
\* entry, and then the name of that entry; with no host record, more than
\* one, or any External entry it returns None.
C19_DnsChangeAllowed ==
    n_pc = "done" =>
        IF Cardinality(HostEntries) = 1 /\ ExternalEntries = {}
        THEN /\ n_returned = "name"
             /\ \E k \in HostEntries : n_value = <<ResultObjects[k][7]>>
        ELSE /\ n_returned = "None"
             /\ n_value = <<>>


====
